---------------------------- MODULE Spec2Model ----------------------------
(***************************************************************************)
(* A model of aozorabunko_cleaning.py: the archive walker                  *)
(* (process_zip_files), the document parser (process_content), the noise   *)
(* stripper (remove_parentheses_and_special_chars), the character          *)
(* normaliser (convert_fullwidth_to_halfwidth) and the record emitter      *)
(* (write_output).                                                         *)
(*                                                                         *)
(* A text is a sequence of characters; a character is a short string that  *)
(* names it ("NL" is the line feed, "tei" "hon" "zcolon" spell the         *)
(* source-edition marker, "nen" "gatsu" "nichi" are the year, month and    *)
(* day signs).  Every regular expression of the source is translated by    *)
(* what Python's re module does with it: leftmost match, greedy and lazy   *)
(* quantifiers, non-overlapping substitution from left to right.           *)
(***************************************************************************)
EXTENDS Integers, Sequences, FiniteSets, TLC

(***************************************************************************)
(* Characters and the character classes of Python's re (str patterns).     *)
(***************************************************************************)
NL == "NL"
CR == "CR"
SP == "SP"
TAB == "TAB"
IDSP == "IDSP"
NBSP == "NBSP"
HYPHEN == "-"
SHARP == "#"
ZSHARP == "zsharp"
BAR == "bar"
LRUBY == "lruby"
RRUBY == "rruby"
LBRACK == "lbrack"
RBRACK == "rbrack"
TEI == "tei"
HON == "hon"
ZCOLON == "zcolon"
NEN == "nen"
GATSU == "gatsu"
NICHI == "nichi"

AsciiDigits == {"0", "1", "2", "3", "4", "5", "6", "7", "8", "9"}
ZenDigits == {"z0", "z1", "z2", "z3", "z9"}
Digits == AsciiDigits \cup ZenDigits
Letters == {"a", "b", "A", "za", "zA", "ka", "_"}
WordChars == Letters \cup Digits \cup {TEI, HON, NEN, GATSU, NICHI}
SpaceChars == {NL, CR, SP, TAB, IDSP, NBSP}

DigitValue(c) ==
    CASE c \in {"0", "z0"} -> 0
      [] c \in {"1", "z1"} -> 1
      [] c \in {"2", "z2"} -> 2
      [] c \in {"3", "z3"} -> 3
      [] c = "4" -> 4
      [] c = "5" -> 5
      [] c = "6" -> 6
      [] c = "7" -> 7
      [] c = "8" -> 8
      [] c \in {"9", "z9"} -> 9

(***************************************************************************)
(* Sequence helpers.                                                       *)
(***************************************************************************)
Prefix(s, n) == SubSeq(s, 1, n)

Suffix(s, i) == SubSeq(s, i, Len(s))

\* s holds pat at position i
StartsAt(s, i, pat) ==
    /\ i >= 1
    /\ i + Len(pat) - 1 <= Len(s)
    /\ \A k \in 1..Len(pat) : s[i + k - 1] = pat[k]

\* the end of the longest run of characters of class cls that starts at i
\* (i - 1 when s[i] is not of the class)
RECURSIVE RunEnd(_, _, _)
RunEnd(s, i, cls) ==
    IF i <= Len(s) /\ s[i] \in cls THEN RunEnd(s, i + 1, cls) ELSE i - 1

\* the end of the line that position i is on: the position before the next
\* line feed at or after i, or the end of the text
RECURSIVE LineEnd(_, _)
LineEnd(s, i) ==
    IF i <= Len(s) /\ s[i] # NL THEN LineEnd(s, i + 1) ELSE i - 1

\* re.MULTILINE ^ : the start of the text or right after a line feed
AtLineStart(s, i) == i = 1 \/ s[i - 1] = NL

\* re.sub: m[i] is the end of the match that starts at i (less than i when
\* none does), r[i] its replacement; matches are taken from left to right
\* and do not overlap
RECURSIVE Splice(_, _, _, _)
Splice(s, m, r, i) ==
    IF i > Len(s) THEN <<>>
    ELSE IF m[i] >= i THEN r[i] \o Splice(s, m, r, m[i] + 1)
    ELSE <<s[i]>> \o Splice(s, m, r, i + 1)

Sub(s, m, r) == Splice(s, m, r, 1)

Empty(s) == [i \in DOMAIN s |-> <<>>]

(***************************************************************************)
(* convert_fullwidth_to_halfwidth: mojimoji.zen_to_han(kana=False,         *)
(* ascii=True, digit=True).                                                *)
(***************************************************************************)
zen_to_han(c) ==
    CASE c = "za" -> "a"
      [] c = "zA" -> "A"
      [] c = "z0" -> "0"
      [] c = "z1" -> "1"
      [] c = "z2" -> "2"
      [] c = "z3" -> "3"
      [] c = "z9" -> "9"
      [] c = ZSHARP -> SHARP
      [] c = ZCOLON -> ":"
      [] c = BAR -> "|"
      [] c = LBRACK -> "["
      [] c = RBRACK -> "]"
      [] c = IDSP -> SP
      [] OTHER -> c

convert_fullwidth_to_halfwidth(text) ==
    [i \in DOMAIN text |-> zen_to_han(text[i])]

(***************************************************************************)
(* remove_parentheses_and_special_chars                                    *)
(***************************************************************************)
\* re.sub(r'[\t]+', ' ', text)
TabRun(s, i) == RunEnd(s, i, {TAB})

sub_tabs(text) ==
    Sub(text, [i \in DOMAIN text |-> TabRun(text, i)],
              [i \in DOMAIN text |-> <<SP>>])

\* re.sub(r'[　\xa0]+', ' ', text)
WideSpaceRun(s, i) == RunEnd(s, i, {IDSP, NBSP})

sub_wide_spaces(text) ==
    Sub(text, [i \in DOMAIN text |-> WideSpaceRun(text, i)],
              [i \in DOMAIN text |-> <<SP>>])

\* the last position c in b..cmax where $ matches (c is past the end of the
\* text or holds a line feed), b - 1 when there is none
RECURSIVE LastDollar(_, _, _)
LastDollar(s, b, c) ==
    IF c < b THEN b - 1
    ELSE IF c > Len(s) \/ s[c] = NL THEN c
    ELSE LastDollar(s, b, c - 1)

\* r'^\s*\w+\s*$\n?' with re.MULTILINE, tried at position i
TokenLine(s, i) ==
    IF ~AtLineStart(s, i) THEN 0
    ELSE LET a == RunEnd(s, i, SpaceChars) + 1
             b == RunEnd(s, a, WordChars) + 1
             cmax == RunEnd(s, b, SpaceChars) + 1
             c == LastDollar(s, b, cmax)
         IN  IF b = a \/ c < b THEN 0
             ELSE IF c <= Len(s) THEN c ELSE Len(s)

sub_token_lines(text) ==
    Sub(text, [i \in DOMAIN text |-> TokenLine(text, i)], Empty(text))

\* r'^[ ]*$\n' with re.MULTILINE, tried at position i
BlankLine(s, i) ==
    IF ~AtLineStart(s, i) THEN 0
    ELSE LET c == RunEnd(s, i, {SP}) + 1
         IN  IF c <= Len(s) /\ s[c] = NL THEN c ELSE 0

sub_blank_lines(text) ==
    Sub(text, [i \in DOMAIN text |-> BlankLine(text, i)], Empty(text))

\* the stripper with the white space collapsed after the lines are removed
strip_lines_first(text) ==
    sub_wide_spaces(sub_tabs(sub_blank_lines(sub_token_lines(text))))

remove_parentheses_and_special_chars(text) ==
    sub_blank_lines(sub_token_lines(sub_wide_spaces(sub_tabs(text))))


(***************************************************************************)
(* process_content, stage by stage.                                        *)
(***************************************************************************)
\* text.replace('\r\n', '\n')
CrLf(s, i) == IF StartsAt(s, i, <<CR, NL>>) THEN i + 1 ELSE 0

replace_crlf(text) ==
    Sub(text, [i \in DOMAIN text |-> CrLf(text, i)],
              [i \in DOMAIN text |-> <<NL>>])

\* text.replace('\r', '\n')
replace_cr(text) == [i \in DOMAIN text |-> IF text[i] = CR THEN NL ELSE text[i]]

\* the first position at or after i that holds c, 0 when there is none
RECURSIVE Find(_, _, _)
Find(s, i, c) ==
    IF i > Len(s) THEN 0
    ELSE IF s[i] = c THEN i
    ELSE Find(s, i + 1, c)

\* the last position in lo..hi that holds c, 0 when there is none
RECURSIVE FindLast(_, _, _, _)
FindLast(s, lo, hi, c) ==
    IF hi < lo THEN 0
    ELSE IF s[hi] = c THEN hi
    ELSE FindLast(s, lo, hi - 1, c)

\* title, text = text.split("\n", 1): unpacking one part raises ValueError
split_title(text) ==
    LET p == Find(text, 1, NL)
    IN  IF p = 0 THEN [ok |-> FALSE, error |-> "ValueError"]
        ELSE [ok |-> TRUE, title |-> Prefix(text, p - 1),
              text |-> Suffix(text, p + 1)]

\* r"^(.|\n)*?\n\s*\n" at the start of the text: the end of the match whose
\* first line feed is at i, 0 when the white space after i holds no line feed
PreambleEndAt(s, i) ==
    IF s[i] # NL THEN 0
    ELSE FindLast(s, i + 1, RunEnd(s, i + 1, SpaceChars), NL)

RECURSIVE PreambleEnd(_, _)
PreambleEnd(s, i) ==
    IF i > Len(s) THEN 0
    ELSE IF PreambleEndAt(s, i) > 0 THEN PreambleEndAt(s, i)
    ELSE PreambleEnd(s, i + 1)

\* re.sub(r"^(.|\n)*?\n\s*\n", "", text)
strip_preamble(text) == Suffix(text, PreambleEnd(text, 1) + 1)

HyphenRule == <<HYPHEN, HYPHEN, HYPHEN, HYPHEN, HYPHEN, HYPHEN, HYPHEN>>

\* the first position at or after i where seven hyphens start, 0 when none
RECURSIVE FindRule(_, _)
FindRule(s, i) ==
    IF i > Len(s) THEN 0
    ELSE IF StartsAt(s, i, HyphenRule) THEN i
    ELSE FindRule(s, i + 1)

\* r'--------*(.|\n)*?--------*' tried at position i: seven hyphens and the
\* rest of their run, the shortest text up to the next seven hyphens, and
\* the rest of that run; a single run closes itself when it holds two rules
Divider(s, i) ==
    IF ~StartsAt(s, i, HyphenRule) THEN 0
    ELSE LET e1 == RunEnd(s, i, {HYPHEN})
             q == FindRule(s, e1 + 1)
         IN  IF q > 0 THEN RunEnd(s, q, {HYPHEN})
             ELSE IF e1 - i + 1 >= 2 * Len(HyphenRule) THEN e1
             ELSE 0

\* re.sub(r'--------*(.|\n)*?--------*', "", text)
strip_dividers(text) ==
    Sub(text, [i \in DOMAIN text |-> Divider(text, i)], Empty(text))

Marker == <<TEI, HON, ZCOLON>>

\* the last position in lo..hi where pat starts, 0 when there is none
RECURSIVE FindLastPat(_, _, _, _)
FindLastPat(s, lo, hi, pat) ==
    IF hi < lo THEN 0
    ELSE IF StartsAt(s, hi, pat) THEN hi
    ELSE FindLastPat(s, lo, hi - 1, pat)

\* '\n.*底本：' tried at position i: a line feed, then as much of the line
\* that follows as ends in the marker; the position of that marker, or 0
MarkerLineAt(s, i) ==
    IF s[i] # NL THEN 0
    ELSE FindLastPat(s, i + 1, LineEnd(s, i + 1) - Len(Marker) + 1, Marker)

RECURSIVE FirstMarkerLine(_, _)
FirstMarkerLine(s, i) ==
    IF i > Len(s) THEN 0
    ELSE IF MarkerLineAt(s, i) > 0 THEN i
    ELSE FirstMarkerLine(s, i + 1)

\* the split taken at the last marker line instead of the first
split_marker_last(text) ==
    IF \A i \in DOMAIN text : MarkerLineAt(text, i) = 0 THEN <<text>>
    ELSE LET p == CHOOSE i \in DOMAIN text :
                      /\ MarkerLineAt(text, i) > 0
                      /\ \A k \in (i + 1)..Len(text) : MarkerLineAt(text, k) = 0
         IN  <<Prefix(text, p - 1),
               Suffix(text, MarkerLineAt(text, p) + Len(Marker))>>

\* re.split('\n.*底本：', text, 1)
split_marker(text) ==
    LET p == FirstMarkerLine(text, 1)
    IN  IF p = 0 THEN <<text>>
        ELSE <<Prefix(text, p - 1),
               Suffix(text, MarkerLineAt(text, p) + Len(Marker))>>

\* text.rsplit(sep, 1)
rsplit(text, sep) ==
    LET p == FindLastPat(text, 1, Len(text) - Len(sep) + 1, sep)
    IN  IF p = 0 THEN <<text>>
        ELSE <<Prefix(text, p - 1), Suffix(text, p + Len(sep))>>

\* the separation with the two blank-line boundaries tried in the other order
split_colophon_double_first(text) ==
    LET s1 == split_marker(text)
        s2 == IF Len(s1) = 1 THEN rsplit(text, <<NL, NL>>) ELSE s1
        s3 == IF Len(s2) = 1 THEN rsplit(text, <<NL, NL, NL>>) ELSE s2
    IN  IF Len(s3) = 1 THEN [ok |-> FALSE, error |-> "InvalidFormat"]
        ELSE [ok |-> TRUE, split_text |-> s3]

\* lines 70-77: the marker line, else the last '\n\n\n', else the last
\* '\n\n', else Exception("Invalid format: ...")
split_colophon(text) ==
    LET s1 == split_marker(text)
        s2 == IF Len(s1) = 1 THEN rsplit(text, <<NL, NL, NL>>) ELSE s1
        s3 == IF Len(s2) = 1 THEN rsplit(text, <<NL, NL>>) ELSE s2
    IN  IF Len(s3) = 1 THEN [ok |-> FALSE, error |-> "InvalidFormat"]
        ELSE [ok |-> TRUE, split_text |-> s3]

IsDigitAt(s, i) == i >= 1 /\ i <= Len(s) /\ s[i] \in Digits

IsCharAt(s, i, c) == i >= 1 /\ i <= Len(s) /\ s[i] = c

FourDigitsAt(s, p) == \A k \in 0..3 : IsDigitAt(s, p + k)

\* (\d{1,2})月(\d{1,2})日 right after position q
MonthDayAfter(s, q) ==
    \E m \in {1, 2} : \E d \in {1, 2} :
        /\ \A k \in 1..m : IsDigitAt(s, q + k)
        /\ IsCharAt(s, q + m + 1, GATSU)
        /\ \A k \in 1..d : IsDigitAt(s, q + m + 1 + k)
        /\ IsCharAt(s, q + m + d + 2, NICHI)

\* r'(\d{4}).*?年(\d{1,2})月(\d{1,2})日' matches at position p
DateAt(s, p) ==
    /\ FourDigitsAt(s, p)
    /\ \E q \in (p + 4)..LineEnd(s, p + 4) : s[q] = NEN /\ MonthDayAfter(s, q)

\* r'(\d{4}).*?年' matches at position p
YearOnlyAt(s, p) ==
    /\ FourDigitsAt(s, p)
    /\ \E q \in (p + 4)..LineEnd(s, p + 4) : s[q] = NEN

\* re.search: the leftmost position where the pattern matches, 0 when none
search_date(s) ==
    IF \E p \in DOMAIN s : DateAt(s, p)
    THEN CHOOSE p \in DOMAIN s : DateAt(s, p) /\ \A r \in 1..(p - 1) : ~DateAt(s, r)
    ELSE 0

search_year_only(s) ==
    IF \E p \in DOMAIN s : YearOnlyAt(s, p)
    THEN CHOOSE p \in DOMAIN s :
             YearOnlyAt(s, p) /\ \A r \in 1..(p - 1) : ~YearOnlyAt(s, r)
    ELSE 0

\* int(year) of the four characters of group 1
IntOf(y) ==
    DigitValue(y[1]) * 1000 + DigitValue(y[2]) * 100
        + DigitValue(y[3]) * 10 + DigitValue(y[4])

YearLimit == 2030

\* lines 81-94.  The year/month/day pattern gives year, month and day.  The
\* year-only pattern has one group, so match.group(2) raises IndexError.
\* With no match year is never assigned and int(year) raises
\* UnboundLocalError.
extract_year(colophon) ==
    LET p == search_date(colophon)
    IN  IF p > 0
        THEN LET year == SubSeq(colophon, p, p + 3)
             IN  IF IntOf(year) >= YearLimit
                 THEN [ok |-> FALSE, error |-> "InvalidYear"]
                 ELSE [ok |-> TRUE, year |-> year]
        ELSE IF search_year_only(colophon) > 0
        THEN [ok |-> FALSE, error |-> "IndexError"]
        ELSE [ok |-> FALSE, error |-> "UnboundLocalError"]

\* the first position in lo..hi that holds c, 0 when there is none
RECURSIVE FindIn(_, _, _, _)
FindIn(s, lo, hi, c) ==
    IF lo > hi THEN 0
    ELSE IF s[lo] = c THEN lo
    ELSE FindIn(s, lo + 1, hi, c)

\* the first position q in lo..hi that opens a reading which is closed on
\* the same line, 0 when there is none
RECURSIVE FindReading(_, _, _)
FindReading(s, lo, hi) ==
    IF lo > hi THEN 0
    ELSE IF s[lo] = LRUBY /\ FindIn(s, lo + 1, hi, RRUBY) > 0 THEN lo
    ELSE FindReading(s, lo + 1, hi)

\* r'｜(.+?)《.*?》' tried at position i
RubyBase(s, i) ==
    IF s[i] # BAR THEN 0
    ELSE LET q == FindReading(s, i + 2, LineEnd(s, i + 1))
         IN  IF q = 0 THEN 0 ELSE FindIn(s, q + 1, LineEnd(s, i + 1), RRUBY)

\* re.sub(r'｜(.+?)《.*?》', r'\1', text)
sub_ruby_base(text) ==
    Sub(text, [i \in DOMAIN text |-> RubyBase(text, i)],
        [i \in DOMAIN text |->
            SubSeq(text, i + 1, FindReading(text, i + 2, LineEnd(text, i + 1)) - 1)])

\* r'《.*?》' tried at position i
Ruby(s, i) ==
    IF s[i] # LRUBY THEN 0 ELSE FindIn(s, i + 1, LineEnd(s, i + 1), RRUBY)

\* re.sub(r'《.*?》', '', text)
sub_ruby(text) == Sub(text, [i \in DOMAIN text |-> Ruby(text, i)], Empty(text))

\* r'［＃.*］' tried at position i
Annotation(s, i) ==
    IF ~StartsAt(s, i, <<LBRACK, ZSHARP>>) THEN 0
    ELSE FindLast(s, i + 2, LineEnd(s, i + 2), RBRACK)

\* re.sub(r'［＃.*］', '', text)
sub_annotations(text) ==
    Sub(text, [i \in DOMAIN text |-> Annotation(text, i)], Empty(text))

\* re.sub(r'#', '＃', text)
sub_sharp(text) ==
    [i \in DOMAIN text |-> IF text[i] = SHARP THEN ZSHARP ELSE text[i]]

\* r'^ *\n' with re.MULTILINE, tried at position i
EmptyLine(s, i) ==
    IF ~AtLineStart(s, i) THEN 0
    ELSE LET c == RunEnd(s, i, {SP}) + 1
         IN  IF c <= Len(s) /\ s[c] = NL THEN c ELSE 0

\* re.sub(r'^ *\n', '', text, flags=re.MULTILINE)
sub_empty_lines(text) ==
    Sub(text, [i \in DOMAIN text |-> EmptyLine(text, i)], Empty(text))

\* lines 96-102
clean_body(text) ==
    remove_parentheses_and_special_chars(
        convert_fullwidth_to_halfwidth(
            sub_empty_lines(sub_sharp(sub_annotations(sub_ruby(sub_ruby_base(text)))))))

\* lines 64-68
strip_head(text) ==
    LET h == split_title(replace_cr(replace_crlf(text)))
    IN  IF ~h.ok THEN h
        ELSE [ok |-> TRUE, title |-> h.title,
              text |-> strip_dividers(strip_preamble(h.text))]

\* process_content as a whole: (title, year, text), or the exception raised
process_content(text) ==
    LET h == strip_head(text)
    IN  IF ~h.ok THEN h
        ELSE LET sp == split_colophon(h.text)
             IN  IF ~sp.ok THEN sp
                 ELSE LET y == extract_year(sp.split_text[2])
                      IN  IF ~y.ok THEN y
                          ELSE [ok |-> TRUE, title |-> h.title, year |-> y.year,
                                text |-> clean_body(sp.split_text[1])]


(***************************************************************************)
(* write_output: the record emitter.                                       *)
(***************************************************************************)
\* text.split('\n')
RECURSIVE split_lines(_)
split_lines(text) ==
    LET p == Find(text, 1, NL)
    IN  IF p = 0 THEN <<text>>
        ELSE <<Prefix(text, p - 1)>> \o split_lines(Suffix(text, p + 1))

\* the emitter without the pop of a last empty line
article_list_keep_last(title, text) ==
    LET text_list == split_lines(text)
    IN  [i \in DOMAIN text_list |-> [title |-> title, text |-> text_list[i]]]

\* lines 125-130: the lines of the text, a last empty one popped, each
\* paired with the title
article_list(title, text) ==
    LET text_list == split_lines(text)
        kept == IF text_list[Len(text_list)] = <<>>
                THEN Prefix(text_list, Len(text_list) - 1)
                ELSE text_list
    IN  [i \in DOMAIN kept |-> [title |-> title, text |-> kept[i]]]

\* year[:-1] + 'x', the decade in the name of the parquet file
bucket_of(year) == Prefix(year, Len(year) - 1) \o <<"x">>

\* pq.ParquetWriter(path, schema) creates the file anew; write_table and
\* close leave it holding the rows of this one document
write_parquet(store, key, rows) ==
    [k \in DOMAIN store \cup {key} |-> IF k = key THEN rows ELSE store[k]]

(***************************************************************************)
(* Bounds and inputs.                                                      *)
(***************************************************************************)
MaxArchives == 2
MaxEntries == 2
MaxLines == 4
MaxStripLen == 4
MaxEmitLen == 5

RECURSIVE Join(_)
Join(lines) ==
    IF Len(lines) = 0 THEN <<>>
    ELSE IF Len(lines) = 1 THEN lines[1]
    ELSE lines[1] \o <<NL>> \o Join(Tail(lines))

SeqsUpTo(S, n) == UNION {[1..k -> S] : k \in 0..n}

TextLine == <<"a", SP, "za">>
BlankText == <<>>
MarkerLine == Marker \o <<"a">>
DateLine == <<"1", "9", "2", "3", NEN, "4", GATSU, "1", NICHI>>
LateDateLine == <<"2", "0", "3", "0", NEN, "4", GATSU, "1", NICHI>>
EdgeDateLine == <<"2", "0", "2", "9", NEN, "1", "2", GATSU, "3", "1", NICHI>>
YearOnlyLine == <<"1", "9", "2", "5", NEN>>

LineKinds ==
    {TextLine, BlankText, MarkerLine, DateLine, LateDateLine, EdgeDateLine,
     YearOnlyLine}

\* nothing, a title line, or a title line and a header closed by a blank line
Heads == {<<>>, <<"a", NL>>, <<"a", NL, "b", NL, NL>>}

ParseInputs == {h \o Join(ls) : h \in Heads, ls \in SeqsUpTo(LineKinds, MaxLines)}

\* a well-formed document: title, header, blank line, body, marker, colophon
MakeDoc(title, body, colophon) ==
    title \o <<NL, "b", NL, NL>> \o body \o <<NL>> \o Marker \o <<"a", NL>>
        \o colophon \o <<NL>>

Doc1923 == MakeDoc(<<"a">>, TextLine, DateLine)
Doc1925 ==
    MakeDoc(<<"b">>, <<"b", SP, "a", NL, "a", SP, "a">>,
            <<"1", "9", "2", "5", NEN, "1", GATSU, "2", NICHI>>)
\* CRLF line ends, a ruby with its base marked and an editorial annotation
Doc2029 ==
    <<"A", CR, NL, "b", CR, NL, CR, NL>>
        \o <<"A", SP, BAR, "b", LRUBY, "a", RRUBY, LBRACK, ZSHARP, "a", RBRACK, CR, NL>>
        \o Marker \o <<"a", CR, NL>> \o EdgeDateLine \o <<CR, NL>>
Doc2030 == MakeDoc(<<"a">>, TextLine, LateDateLine)
DocNoColophon == <<"a", NL, "b", SP, "b">>

WalkDocs == {Doc1923, Doc1925, Doc2029, Doc2030, DocNoColophon}

\* the names of an archive: text entries and others
Entries ==
    {[txt |-> TRUE, content |-> d] : d \in WalkDocs}
        \cup {[txt |-> FALSE, content |-> <<>>]}

Archives ==
    {[corrupt |-> TRUE, entries |-> <<>>]}
        \cup {[corrupt |-> FALSE, entries |-> es] : es \in SeqsUpTo(Entries, MaxEntries)}

StripAlphabet == {"a", SP, NL, TAB, IDSP, "maru"}
StripInputs == SeqsUpTo(StripAlphabet, MaxStripLen)

EmitAlphabet == {"a", SP, NL}
EmitInputs ==
    {[title |-> t, text |-> x] : t \in {<<"a">>, <<"b", SP, "a">>},
                                 x \in SeqsUpTo(EmitAlphabet, MaxEmitLen)}

(***************************************************************************)
(* State.                                                                  *)
(***************************************************************************)
VARIABLES
    src_is_dir,       \* whether src_dir is a directory
    archives,         \* the zip files under src_dir, in glob order
    ai,               \* the archive the walker is at
    ei,               \* the entries of that archive it has taken
    pc,               \* "start", "walk", "write", "done" or "failed" ("idle"
                      \* when no batch runs)
    title, year, text,\* the locals of process_zip_files, Unbound at first
    yielded,          \* the tuples the walker has yielded
    files,            \* the parquet files of output_dir, by decade
    log,              \* what was printed
    article_counter,  \* write_output's counter
    failure,          \* the exception that ended the run
    raw,              \* the argument of process_content
    frame,            \* the locals of process_content and where it is
    arg,              \* the argument of a function applied on its own
    res               \* its results

walk_vars ==
    <<src_is_dir, archives, ai, ei, pc, title, year, text, yielded, files, log,
      article_counter, failure>>
parse_vars == <<raw, frame>>
fun_vars == <<arg, res>>
vars == <<walk_vars, parse_vars, fun_vars>>

Unbound == "unbound"
NoFiles == [k \in {} |-> <<>>]
EntryFrame ==
    [at |-> "entry", title |-> <<>>, text |-> <<>>, split_text |-> <<>>,
     year |-> Unbound, error |-> "none"]

WalkIdle ==
    /\ src_is_dir = TRUE
    /\ archives = <<>>
    /\ ai = 1
    /\ ei = 0
    /\ pc = "idle"
    /\ title = Unbound
    /\ year = Unbound
    /\ text = Unbound
    /\ yielded = <<>>
    /\ files = NoFiles
    /\ log = <<>>
    /\ article_counter = 1
    /\ failure = "none"

ParseIdle == raw = <<>> /\ frame = [EntryFrame EXCEPT !.at = "idle"]

FunIdle == arg = <<>> /\ res = <<>>

(***************************************************************************)
(* The batch: write_output driving process_zip_files.                      *)
(***************************************************************************)
Init ==
    /\ src_is_dir \in BOOLEAN
    /\ archives \in SeqsUpTo(Archives, MaxArchives)
    /\ src_is_dir = FALSE => archives = <<>>
    /\ ai = 1
    /\ ei = 0
    /\ pc = "start"
    /\ title = Unbound
    /\ year = Unbound
    /\ text = Unbound
    /\ yielded = <<>>
    /\ files = NoFiles
    /\ log = <<>>
    /\ article_counter = 1
    /\ failure = "none"
    /\ ParseIdle
    /\ FunIdle

\* lines 17-20: the generator starts, or raises when src_dir is no directory
CheckSourceDir ==
    /\ pc = "start"
    /\ IF src_is_dir
       THEN pc' = "walk" /\ failure' = failure
       ELSE pc' = "failed" /\ failure' = "SourceDirMissing"
    /\ UNCHANGED <<src_is_dir, archives, ai, ei, title, year, text, yielded, files,
                   log, article_counter>>
    /\ UNCHANGED <<parse_vars, fun_vars>>

\* lines 24, 35-36: zipfile.ZipFile raises BadZipFile, which is printed
BadZipFile ==
    /\ pc = "walk"
    /\ ai <= Len(archives)
    /\ archives[ai].corrupt
    /\ log' = Append(log, [kind |-> "bad zip file", archive |-> ai])
    /\ ai' = ai + 1
    /\ ei' = 0
    /\ UNCHANGED <<src_is_dir, archives, pc, title, year, text, yielded, files,
                   article_counter, failure>>
    /\ UNCHANGED <<parse_vars, fun_vars>>

\* line 25: the names of the archive are exhausted
CloseArchive ==
    /\ pc = "walk"
    /\ ai <= Len(archives)
    /\ ~archives[ai].corrupt
    /\ ei = Len(archives[ai].entries)
    /\ ai' = ai + 1
    /\ ei' = 0
    /\ UNCHANGED <<src_is_dir, archives, pc, title, year, text, yielded, files, log,
                   article_counter, failure>>
    /\ UNCHANGED <<parse_vars, fun_vars>>

\* line 26: a name that does not end in ".txt"
SkipEntry ==
    /\ pc = "walk"
    /\ ai <= Len(archives)
    /\ ~archives[ai].corrupt
    /\ ei < Len(archives[ai].entries)
    /\ ~archives[ai].entries[ei + 1].txt
    /\ ei' = ei + 1
    /\ UNCHANGED <<src_is_dir, archives, ai, pc, title, year, text, yielded, files,
                   log, article_counter, failure>>
    /\ UNCHANGED <<parse_vars, fun_vars>>

\* lines 27-34, process_content returns: the locals are assigned and yielded
YieldParsed ==
    /\ pc = "walk"
    /\ ai <= Len(archives)
    /\ ~archives[ai].corrupt
    /\ ei < Len(archives[ai].entries)
    /\ archives[ai].entries[ei + 1].txt
    /\ LET r == process_content(archives[ai].entries[ei + 1].content)
       IN  /\ r.ok
           /\ title' = r.title
           /\ year' = r.year
           /\ text' = r.text
           /\ yielded' = Append(yielded, <<r.title, r.year, r.text>>)
    /\ ei' = ei + 1
    /\ pc' = "write"
    /\ UNCHANGED <<src_is_dir, archives, ai, files, log, article_counter, failure>>
    /\ UNCHANGED <<parse_vars, fun_vars>>

\* lines 27-34, process_content raises: the exception is printed, and line
\* 34 then yields the locals all the same.  They hold the last document
\* parsed, or nothing yet, and then reading them raises UnboundLocalError,
\* which no handler of the generator or of write_output catches.
YieldAfterException ==
    /\ pc = "walk"
    /\ ai <= Len(archives)
    /\ ~archives[ai].corrupt
    /\ ei < Len(archives[ai].entries)
    /\ archives[ai].entries[ei + 1].txt
    /\ LET r == process_content(archives[ai].entries[ei + 1].content)
       IN  /\ ~r.ok
           /\ log' = Append(log, [kind |-> "exception", archive |-> ai,
                                  entry |-> ei + 1, error |-> r.error])
    /\ ei' = ei + 1
    /\ IF title = Unbound
       THEN /\ pc' = "failed"
            /\ failure' = "UnboundLocalError"
            /\ yielded' = yielded
       ELSE /\ pc' = "write"
            /\ failure' = failure
            /\ yielded' = Append(yielded, <<title, year, text>>)
    /\ UNCHANGED <<src_is_dir, archives, ai, title, year, text, files,
                   article_counter>>
    /\ UNCHANGED <<parse_vars, fun_vars>>

\* lines 120-140: the body of write_output's loop for the tuple yielded last
WriteArticle ==
    /\ pc = "write"
    /\ LET t == yielded[Len(yielded)]
       IN  files' = write_parquet(files, bucket_of(t[2]), article_list(t[1], t[3]))
    /\ log' = IF article_counter % 100 = 0
              THEN Append(log, [kind |-> "articles processed",
                                count |-> article_counter])
              ELSE log
    /\ article_counter' = article_counter + 1
    /\ pc' = "walk"
    /\ UNCHANGED <<src_is_dir, archives, ai, ei, title, year, text, yielded, failure>>
    /\ UNCHANGED <<parse_vars, fun_vars>>

\* line 22: the glob is exhausted and the generator returns
Finish ==
    /\ pc = "walk"
    /\ ai > Len(archives)
    /\ pc' = "done"
    /\ UNCHANGED <<src_is_dir, archives, ai, ei, title, year, text, yielded, files,
                   log, article_counter, failure>>
    /\ UNCHANGED <<parse_vars, fun_vars>>

Next ==
    \/ CheckSourceDir
    \/ BadZipFile
    \/ CloseArchive
    \/ SkipEntry
    \/ YieldParsed
    \/ YieldAfterException
    \/ WriteArticle
    \/ Finish

Spec == Init /\ [][Next]_vars

(***************************************************************************)
(* process_content on its own, one stage at a time.                        *)
(***************************************************************************)
ParseInit ==
    /\ WalkIdle
    /\ FunIdle
    /\ raw \in ParseInputs
    /\ frame = EntryFrame

Raise(e) == frame' = [frame EXCEPT !.at = "raised", !.error = e]

\* lines 64-68
StripHead ==
    /\ frame.at = "entry"
    /\ LET h == strip_head(raw)
       IN  IF h.ok
           THEN frame' = [frame EXCEPT !.at = "head", !.title = h.title,
                                       !.text = h.text]
           ELSE Raise(h.error)
    /\ UNCHANGED <<raw, walk_vars, fun_vars>>

\* lines 70-77
SplitColophon ==
    /\ frame.at = "head"
    /\ LET sp == split_colophon(frame.text)
       IN  IF sp.ok
           THEN frame' = [frame EXCEPT !.at = "split", !.split_text = sp.split_text]
           ELSE Raise(sp.error)
    /\ UNCHANGED <<raw, walk_vars, fun_vars>>

\* lines 79-94
ExtractYear ==
    /\ frame.at = "split"
    /\ LET y == extract_year(frame.split_text[2])
       IN  IF y.ok
           THEN frame' = [frame EXCEPT !.at = "year", !.year = y.year,
                                       !.text = frame.split_text[1]]
           ELSE Raise(y.error)
    /\ UNCHANGED <<raw, walk_vars, fun_vars>>

\* lines 96-103
CleanBody ==
    /\ frame.at = "year"
    /\ frame' = [frame EXCEPT !.at = "returned", !.text = clean_body(frame.text)]
    /\ UNCHANGED <<raw, walk_vars, fun_vars>>

ParseNext ==
    \/ StripHead
    \/ SplitColophon
    \/ ExtractYear
    \/ CleanBody

ParseSpec == ParseInit /\ [][ParseNext]_vars

(***************************************************************************)
(* remove_parentheses_and_special_chars applied, and applied again.        *)
(***************************************************************************)
StripInit ==
    /\ WalkIdle
    /\ ParseIdle
    /\ arg \in StripInputs
    /\ res = <<>>

Strip ==
    /\ Len(res) = 0
    /\ res' = <<remove_parentheses_and_special_chars(arg)>>
    /\ UNCHANGED <<arg, walk_vars, parse_vars>>

StripAgain ==
    /\ Len(res) = 1
    /\ res' = Append(res, remove_parentheses_and_special_chars(res[1]))
    /\ UNCHANGED <<arg, walk_vars, parse_vars>>

StripNext ==
    \/ Strip
    \/ StripAgain

StripSpec == StripInit /\ [][StripNext]_vars

(***************************************************************************)
(* The emitter applied to a title and a text.                              *)
(***************************************************************************)
EmitInit ==
    /\ WalkIdle
    /\ ParseIdle
    /\ arg \in EmitInputs
    /\ res = <<>>

Emit ==
    /\ Len(res) = 0
    /\ res' = <<article_list(arg.title, arg.text)>>
    /\ UNCHANGED <<arg, walk_vars, parse_vars>>

EmitNext == Emit

EmitSpec == EmitInit /\ [][EmitNext]_vars


(***************************************************************************)
(* What the properties below speak of.                                     *)
(***************************************************************************)
Range(f) == {f[i] : i \in DOMAIN f}

ContainsPat(s, pat) == \E i \in 1..Len(s) : StartsAt(s, i, pat)

NoBreak(s, lo, hi) == \A k \in lo..hi : s[k] # NL

RECURSIVE Flatten(_)
Flatten(ss) == IF Len(ss) = 0 THEN <<>> ELSE ss[1] \o Flatten(Tail(ss))

\* the text entries the walker has taken so far, in order
Taken ==
    LET whole == [i \in 1..(ai - 1) |-> archives[i].entries]
        part == IF ai <= Len(archives) /\ ~archives[ai].corrupt
                THEN SubSeq(archives[ai].entries, 1, ei)
                ELSE <<>>
    IN  SelectSeq(Flatten(whole) \o part, LAMBDA e : e.txt)

TupleOf(r) == <<r.title, r.year, r.text>>

RECURSIVE ParsedTuples(_)
ParsedTuples(es) ==
    IF Len(es) = 0 THEN <<>>
    ELSE LET r == process_content(es[1].content)
         IN  (IF r.ok THEN <<TupleOf(r)>> ELSE <<>>) \o ParsedTuples(Tail(es))

\* the rows of the documents among ts that belong to decade k, in order
RECURSIVE RowsOfBucket(_, _)
RowsOfBucket(k, ts) ==
    IF Len(ts) = 0 THEN <<>>
    ELSE (IF bucket_of(ts[1][2]) = k THEN article_list(ts[1][1], ts[1][3]) ELSE <<>>)
             \o RowsOfBucket(k, Tail(ts))

\* C1: when the run has ended, the file of each decade holds the rows of
\* every document of the run that was parsed and routed to that decade, not
\* only those of the last one written.
C1_BucketWritesNotLost ==
    pc = "done" =>
        \A t \in Range(ParsedTuples(Taken)) :
            /\ bucket_of(t[2]) \in DOMAIN files
            /\ files[bucket_of(t[2])] = RowsOfBucket(bucket_of(t[2]), ParsedTuples(Taken))

\* C2: an entry whose parse raises contributes no tuple and does not end the
\* run: the tuples yielded so far are exactly those of the entries taken so
\* far that parsed, and no exception has escaped the walker.
C2_FailedEntrySkipped ==
    /\ failure # "UnboundLocalError"
    /\ yielded = ParsedTuples(Taken)

\* C3: a batch that holds corrupt archives still yields, by the end of the
\* run, every valid document of every readable archive.
C3_CorruptArchiveSkipped ==
    (pc \in {"done", "failed"} /\ \E i \in DOMAIN archives : archives[i].corrupt) =>
        \A i \in DOMAIN archives : \A e \in Range(archives[i].entries) :
            (e.txt /\ process_content(e.content).ok) =>
                TupleOf(process_content(e.content)) \in Range(yielded)

Split == Len(frame.split_text) = 2

Ended == frame.at \in {"raised", "returned"}

YearAt(s, p) == SubSeq(s, p, p + 3)

\* C4: when a boundary is found and neither date pattern matches the
\* colophon, process_content fails with the invalid-year error.
C4_NoDateIsInvalidYear ==
    (/\ Split
     /\ Ended
     /\ search_date(frame.split_text[2]) = 0
     /\ search_year_only(frame.split_text[2]) = 0)
        => (frame.at = "raised" /\ frame.error = "InvalidYear")

\* C5: when the colophon holds no year/month/day date but a year-only match
\* below 2030, process_content returns that year with the title.
C5_YearOnlyFallback ==
    (/\ Split
     /\ Ended
     /\ search_date(frame.split_text[2]) = 0
     /\ search_year_only(frame.split_text[2]) > 0
     /\ IntOf(YearAt(frame.split_text[2], search_year_only(frame.split_text[2])))
            < YearLimit)
        => /\ frame.at = "returned"
           /\ frame.year = YearAt(frame.split_text[2],
                                  search_year_only(frame.split_text[2]))

\* C6: for every document whose colophon yields a year y by either pattern,
\* process_content fails with the invalid-year error when y >= 2030 and
\* returns a year below 2030 when y <= 2029.
C6_YearBoundary ==
    LET c == frame.split_text[2]
        p == IF search_date(c) > 0 THEN search_date(c) ELSE search_year_only(c)
    IN  (Split /\ Ended /\ p > 0) =>
            IF IntOf(YearAt(c, p)) >= YearLimit
            THEN frame.at = "raised" /\ frame.error = "InvalidYear"
            ELSE /\ frame.at = "returned"
                 /\ frame.year = YearAt(c, p)
                 /\ IntOf(frame.year) < YearLimit

\* the marker stands at j, on the line that follows the line feed at i
MarkerAfterBreak(s, i, j) ==
    /\ s[i] = NL
    /\ i < j
    /\ StartsAt(s, j, Marker)
    /\ NoBreak(s, i + 1, j - 1)

HasMarkerAfterBreak(s) == \E i, j \in DOMAIN s : MarkerAfterBreak(s, i, j)

\* b is what precedes a line feed, the line after it holds the marker, and c
\* is what follows that marker
SplitsAtMarker(t, b, c) ==
    /\ b = Prefix(t, Len(b))
    /\ Len(b) + 1 \in DOMAIN t
    /\ \E j \in DOMAIN t :
           MarkerAfterBreak(t, Len(b) + 1, j) /\ c = Suffix(t, j + Len(Marker))

\* b and c are what precedes and follows the last sep of t
SplitsAtLast(t, b, c, sep) ==
    /\ b \o sep \o c = t
    /\ \A i \in (Len(b) + 2)..Len(t) : ~StartsAt(t, i, sep)

\* the start of the line position j is on
LineStartOf(s, j) ==
    IF \E i \in 1..(j - 1) : s[i] = NL
    THEN 1 + CHOOSE i \in 1..(j - 1) : s[i] = NL /\ NoBreak(s, i + 1, j - 1)
    ELSE 1

\* the lines of s that hold the marker, by their start
MarkerLines(s) == {LineStartOf(s, j) : j \in {k \in DOMAIN s : StartsAt(s, k, Marker)}}

\* b is what precedes the line that holds the marker at j (and its line
\* feed), c what follows that marker
SplitsAtLineOf(t, b, c, j) ==
    /\ StartsAt(t, j, Marker)
    /\ b = Prefix(t, LineStartOf(t, j) - 2)
    /\ c = Suffix(t, j + Len(Marker))

\* C7 as claimed: the text is split at a line that holds the marker whenever
\* it has one; else at the last three line feeds; else at the last two; and
\* it fails with the format error only when it has none of the three.
C7_AnyMarkerLineWins ==
    LET t == frame.text
        b == frame.split_text[1]
        c == frame.split_text[2]
    IN  /\ frame.at = "split" =>
               IF ContainsPat(t, Marker)
               THEN \E j \in DOMAIN t : SplitsAtLineOf(t, b, c, j)
               ELSE IF ContainsPat(t, <<NL, NL, NL>>)
               THEN SplitsAtLast(t, b, c, <<NL, NL, NL>>)
               ELSE SplitsAtLast(t, b, c, <<NL, NL>>)
        /\ (frame.at = "raised" /\ frame.error = "InvalidFormat") =>
               ~ContainsPat(t, Marker) /\ ~ContainsPat(t, <<NL, NL>>)

\* C7, amended: on the text left after the title, the preamble and the
\* dividers, the split is at a line that holds the marker and follows a line
\* feed, whatever blank lines there are; without such a line, at the last
\* three line feeds; without those, at the last two; and the format error is
\* raised exactly when the text has none of the three.  A marker on the
\* first line of that text is not a boundary.
C7_ThreeTierSeparation ==
    LET t == frame.text
        b == frame.split_text[1]
        c == frame.split_text[2]
    IN  /\ frame.at = "split" =>
               IF HasMarkerAfterBreak(t)
               THEN SplitsAtMarker(t, b, c)
               ELSE IF ContainsPat(t, <<NL, NL, NL>>)
               THEN SplitsAtLast(t, b, c, <<NL, NL, NL>>)
               ELSE ContainsPat(t, <<NL, NL>>) /\ SplitsAtLast(t, b, c, <<NL, NL>>)
        /\ (frame.at = "raised" /\ frame.error = "InvalidFormat") =>
               ~HasMarkerAfterBreak(t) /\ ~ContainsPat(t, <<NL, NL>>)

\* a text with a marker line after a line feed and with three line feeds in
\* a row has been split
C7_Witness ==
    /\ frame.at = "split"
    /\ HasMarkerAfterBreak(frame.text)
    /\ ContainsPat(frame.text, <<NL, NL, NL>>)

\* C8: stripping the noise of a stripped text changes nothing.
C8_StripIdempotent == Len(res) = 2 => res[2] = res[1]

\* a text that the first pass changed, without emptying it, has been
\* stripped twice
C8_Witness == Len(res) = 2 /\ res[1] # arg /\ res[1] # <<>>

LineFeeds(s) == Cardinality({i \in DOMAIN s : s[i] = NL})

EndsInBreak(s) == Len(s) > 0 /\ s[Len(s)] = NL

\* C9: the rows are the lines of the text in order, each with the title: one
\* row per line feed and one for what follows the last, less the one empty
\* line a final line feed (or an empty text) leaves; joined by line feeds
\* they give the text back.
C9_OneRowPerLine ==
    Len(res) = 1 =>
        LET rows == res[1]
            x == arg.text
            lines == [i \in DOMAIN rows |-> rows[i].text]
        IN  /\ \A i \in DOMAIN rows : rows[i].title = arg.title
            /\ \A i \in DOMAIN rows : NL \notin Range(rows[i].text)
            /\ Len(rows) = LineFeeds(x) + (IF EndsInBreak(x) \/ x = <<>> THEN 0 ELSE 1)
            /\ x = IF EndsInBreak(x) THEN Join(lines) \o <<NL>> ELSE Join(lines)

\* a text with an empty line inside and a final line feed has been emitted
C9_Witness ==
    /\ Len(res) = 1
    /\ EndsInBreak(arg.text)
    /\ \E i \in DOMAIN res[1] : i < Len(res[1]) /\ res[1][i].text = <<>>
    /\ Len(res[1]) >= 3

\* C10 as claimed: a text with several lines that hold the marker is split
\* at the last of them.
C10_SplitsAtLastMarkerLine ==
    LET t == frame.text
        last == CHOOSE j \in DOMAIN t :
                    StartsAt(t, j, Marker)
                        /\ \A k \in (j + 1)..Len(t) : ~StartsAt(t, k, Marker)
    IN  (frame.at = "split" /\ Cardinality(MarkerLines(t)) > 1) =>
            SplitsAtLineOf(t, frame.split_text[1], frame.split_text[2], last)

BreaksBeforeMarker(s) == {i \in DOMAIN s : \E j \in DOMAIN s : MarkerAfterBreak(s, i, j)}

\* C10, amended: a text with several marker lines after a line feed is split
\* at the first of them: the body holds no such line, the colophon starts
\* after the last marker of that first line and holds every later marker
\* line, and the year is the first date of that whole colophon.
C10_SplitsAtFirstMarkerLine ==
    LET t == frame.text
        b == frame.split_text[1]
        c == frame.split_text[2]
    IN  /\ (frame.at = "split" /\ Cardinality(BreaksBeforeMarker(t)) > 1) =>
               /\ SplitsAtMarker(t, b, c)
               /\ ~HasMarkerAfterBreak(b)
               /\ ~ContainsPat(Prefix(c, LineEnd(c, 1)), Marker)
               /\ Cardinality(BreaksBeforeMarker(c))
                      = Cardinality(BreaksBeforeMarker(t)) - 1
        /\ (frame.at \in {"year", "returned"} /\ HasMarkerAfterBreak(c)) =>
               \E p \in DOMAIN c :
                   /\ DateAt(c, p)
                   /\ \A r \in 1..(p - 1) : ~DateAt(c, r)
                   /\ frame.year = YearAt(c, p)

\* a document split at the first of its marker lines has been returned, its
\* year taken from a colophon that holds a later marker line
C10_Witness ==
    /\ frame.at = "returned"
    /\ Split
    /\ HasMarkerAfterBreak(frame.split_text[2])

=============================================================================
